---------------------------- MODULE Spec2Model ----------------------------
(***************************************************************************)
(* A model of the shader instruction data model of xenia/gpu/shader.h:     *)
(* InstructionResult, InstructionOperand, ParsedAluInstruction and         *)
(* Shader::ConstantRegisterMap, with their derived queries, and the        *)
(* validity and error state of a Shader.                                   *)
(*                                                                         *)
(* The queries are pure member functions.  Each specification draws the    *)
(* object a query is called on from a bounded set, and has one action per  *)
(* query: the action calls the query on the object and records the call    *)
(* (function, argument, returned value) in ret.                            *)
(*                                                                         *)
(* Representation:                                                         *)
(*   - enum class values that the code only compares for equality are      *)
(*     strings carrying the enumerator's name;                             *)
(*   - SwizzleSource is the enumerator's integer value (the code orders    *)
(*     and subtracts them);                                                *)
(*   - a 4-bit write mask is an integer 0..15;                             *)
(*   - a uint64_t block of float_bitmap is the set of its set bit          *)
(*     positions (0..63), so that 64-bit words need no 64-bit arithmetic.  *)
(***************************************************************************)
EXTENDS Integers, FiniteSets, Sequences, TLC

VARIABLES
    result,     \* the InstructionResult under query
    operand,    \* the InstructionOperand under query
    other_operand,  \* the InstructionOperand that operand is compared with
    crm,        \* the Shader::ConstantRegisterMap under query
    shader,     \* the Shader's is_valid_, is_translated_ and errors_
    alu,        \* the ParsedAluInstruction under query
    edits,      \* number of field writes applied to alu since its seed
    ret         \* the last query call: [fn, arg, val]

vars == <<result, operand, other_operand, crm, shader, alu, edits, ret>>

---------------------------------------------------------------------------
(* Bounds of the model. *)

\* Largest storage_index written into a result or an operand.
MaxStorageIndex == 1
\* Largest index passed to InstructionOperand::GetComponent.
MaxComponentIndex == 5
\* Largest number of set bits in a float_bitmap under query.
MaxSetBits == 3
\* Largest number of field writes applied to a seed ALU instruction.
MaxEdits == 2
\* Largest number of errors recorded in a Shader during its translation.
MaxErrors == 3

---------------------------------------------------------------------------
(* Enumerations. *)

InstructionStorageTarget ==
    {"kNone", "kRegister", "kInterpolator", "kPosition",
     "kPointSizeEdgeFlagKillVertex", "kExportAddress", "kExportData",
     "kColor", "kDepth"}

InstructionStorageAddressingMode ==
    {"kStatic", "kAddressAbsolute", "kAddressRelative"}

InstructionStorageSource ==
    {"kRegister", "kConstantFloat", "kVertexFetchConstant",
     "kTextureFetchConstant"}

kX == 0
kY == 1
kZ == 2
kW == 3
k0 == 4
k1 == 5

SwizzleSource == {kX, kY, kZ, kW, k0, k1}

\* The value returned for "not found": UINT32_MAX, all 32 bits set, written
\* as the signed reading of that bit pattern.
UINT32_MAX == -1

---------------------------------------------------------------------------
(* Bit arithmetic on 4-bit masks. *)

Pow2(i) == IF i = 0 THEN 1 ELSE IF i = 1 THEN 2 ELSE IF i = 2 THEN 4 ELSE 8

\* (m >> i) & 1
Bit(m, i) == (m \div Pow2(i)) % 2

\* a & b
BitAnd(a, b) ==
    LET term(i) == IF Bit(a, i) = 1 /\ Bit(b, i) = 1 THEN Pow2(i) ELSE 0
    IN  term(0) + term(1) + term(2) + term(3)

\* a | b
BitOr(a, b) ==
    LET term(i) == IF Bit(a, i) = 1 \/ Bit(b, i) = 1 THEN Pow2(i) ELSE 0
    IN  term(0) + term(1) + term(2) + term(3)

\* The set of bit positions set in a 4-bit mask.
Bits(m) == {i \in 0..3 : Bit(m, i) = 1}

---------------------------------------------------------------------------
(* InstructionResult. *)

GetInstructionStorageTargetUsedComponents_NoDepthCase(target) ==
    CASE target = "kNone" -> 0
      [] target = "kPointSizeEdgeFlagKillVertex" -> 7
      [] OTHER -> 15

GetInstructionStorageTargetUsedComponents(target) ==
    CASE target = "kNone" -> 0
      [] target = "kPointSizeEdgeFlagKillVertex" -> 7
      [] target = "kDepth" -> 1
      [] OTHER -> 15

StandardComponents == [i \in 0..3 |-> i]

\* A default-constructed InstructionResult.
DefaultResult ==
    [storage_target |-> "kNone",
     storage_index |-> 0,
     storage_addressing_mode |-> "kStatic",
     is_clamped |-> FALSE,
     original_write_mask |-> 0,
     components |-> StandardComponents]

GetUsedWriteMask(r) ==
    BitAnd(r.original_write_mask,
           GetInstructionStorageTargetUsedComponents(r.storage_target))

ResultIsStandardSwizzle(r) ==
    /\ GetUsedWriteMask(r) = 15
    /\ r.components[0] = kX
    /\ r.components[1] = kY
    /\ r.components[2] = kZ
    /\ r.components[3] = kW

\* The loop of GetUsedResultComponents from iteration i on, with the
\* accumulator used_components.
RECURSIVE UsedResultComponentsLoop(_, _, _, _)
UsedResultComponentsLoop(r, used_write_mask, i, used_components) ==
    IF i >= 4 THEN used_components
    ELSE UsedResultComponentsLoop(r, used_write_mask, i + 1,
            IF /\ Bit(used_write_mask, i) = 1
               /\ r.components[i] >= kX
               /\ r.components[i] <= kW
            THEN BitOr(used_components, Pow2(r.components[i] - kX))
            ELSE used_components)

GetUsedResultComponents_DestinationLanes(r) ==
    LET used_write_mask == GetUsedWriteMask(r)
        term(i) == IF /\ Bit(used_write_mask, i) = 1
                      /\ r.components[i] >= kX
                      /\ r.components[i] <= kW
                   THEN Pow2(i) ELSE 0
    IN  term(0) + term(1) + term(2) + term(3)

GetUsedResultComponents(r) ==
    UsedResultComponentsLoop(r, GetUsedWriteMask(r), 0, 0)

---------------------------------------------------------------------------
(* InstructionOperand. *)

\* A default-constructed InstructionOperand.
DefaultOperand ==
    [storage_source |-> "kRegister",
     storage_index |-> 0,
     storage_addressing_mode |-> "kStatic",
     is_negated |-> FALSE,
     is_absolute_value |-> FALSE,
     component_count |-> 4,
     components |-> StandardComponents]

\* std::min on uint32_t.
Min(a, b) == IF a < b THEN a ELSE b

GetComponent_Wraparound(o, index) ==
    o.components[index % o.component_count]

GetComponent(o, index) ==
    o.components[Min(index, o.component_count - 1)]

IsStandardSwizzle_Prefix(o) ==
    \A i \in 0..(o.component_count - 1) : o.components[i] = kX + i

IsStandardSwizzle(o) ==
    IF o.component_count = 4
    THEN /\ o.components[0] = kX
         /\ o.components[1] = kY
         /\ o.components[2] = kZ
         /\ o.components[3] = kW
    ELSE FALSE

\* The loop of GetAbsoluteIdenticalComponents from iteration i on, with the
\* accumulator identical_components.
RECURSIVE IdenticalComponentsLoop(_, _, _, _)
IdenticalComponentsLoop(o, other, i, identical_components) ==
    IF i >= 4 THEN identical_components
    ELSE IdenticalComponentsLoop(o, other, i + 1,
            BitOr(identical_components,
                  IF GetComponent(o, i) = GetComponent(other, i)
                  THEN Pow2(i) ELSE 0))

GetAbsoluteIdenticalComponents(o, other) ==
    IF \/ o.storage_source # other.storage_source
       \/ o.storage_index # other.storage_index
       \/ o.storage_addressing_mode # other.storage_addressing_mode
    THEN 0
    ELSE IdenticalComponentsLoop(o, other, 0, 0)

GetIdenticalComponents_ModifiersIgnored(o, other) ==
    GetAbsoluteIdenticalComponents(o, other)

GetIdenticalComponents(o, other) ==
    IF \/ o.is_negated # other.is_negated
       \/ o.is_absolute_value # other.is_absolute_value
    THEN 0
    ELSE GetAbsoluteIdenticalComponents(o, other)

---------------------------------------------------------------------------
(* Shader::ConstantRegisterMap. *)

\* float_bitmap[256 / 64] of a Shader whose constant_register_map_ is {0}.
DefaultCrm ==
    [float_bitmap |-> [b \in 0..3 |-> {}],
     float_dynamic_addressing |-> FALSE]

\* xe::bit_count of a 64-bit word: the number of its set bits.
bit_count(word) == Cardinality(word)

\* (uint64_t(1) << bit_index) - 1: the bits below bit_index.
LowBitsMask(bit_index) == 0..(bit_index - 1)

\* The loop over the blocks below block_index, from block i on, with the
\* accumulator offset.
RECURSIVE PackedOffsetLoop(_, _, _, _)
PackedOffsetLoop(m, block_index, i, offset) ==
    IF i >= block_index THEN offset
    ELSE PackedOffsetLoop(m, block_index, i + 1,
                          offset + bit_count(m.float_bitmap[i]))

GetPackedFloatConstantIndex_ContainingBlockOnly(m, float_constant) ==
    IF float_constant >= 256 THEN UINT32_MAX
    ELSE IF m.float_dynamic_addressing THEN float_constant
    ELSE LET block_index == float_constant \div 64
             bit_index == float_constant % 64
         IN  IF bit_index \notin m.float_bitmap[block_index]
             THEN UINT32_MAX
             ELSE bit_count(m.float_bitmap[block_index]
                            \cap LowBitsMask(bit_index))

GetPackedFloatConstantIndex_NeverIdentity(m, float_constant) ==
    IF float_constant >= 256 THEN UINT32_MAX
    ELSE LET block_index == float_constant \div 64
             bit_index == float_constant % 64
         IN  IF bit_index \notin m.float_bitmap[block_index]
             THEN UINT32_MAX
             ELSE PackedOffsetLoop(m, block_index, 0, 0)
                  + bit_count(m.float_bitmap[block_index]
                              \cap LowBitsMask(bit_index))

GetPackedFloatConstantIndex_DynamicBeforeRange(m, float_constant) ==
    IF m.float_dynamic_addressing THEN float_constant
    ELSE IF float_constant >= 256 THEN UINT32_MAX
    ELSE LET block_index == float_constant \div 64
             bit_index == float_constant % 64
         IN  IF bit_index \notin m.float_bitmap[block_index]
             THEN UINT32_MAX
             ELSE PackedOffsetLoop(m, block_index, 0, 0)
                  + bit_count(m.float_bitmap[block_index]
                              \cap LowBitsMask(bit_index))

GetPackedFloatConstantIndex(m, float_constant) ==
    IF float_constant >= 256 THEN UINT32_MAX
    ELSE IF m.float_dynamic_addressing THEN float_constant
    ELSE LET block_index == float_constant \div 64
             bit_index == float_constant % 64
         IN  IF bit_index \notin m.float_bitmap[block_index]
             THEN UINT32_MAX
             ELSE PackedOffsetLoop(m, block_index, 0, 0)
                  + bit_count(m.float_bitmap[block_index]
                              \cap LowBitsMask(bit_index))

---------------------------------------------------------------------------
(* Shader: validity and errors.  shader.h declares the fields, their       *)
(* constructed values and the accessors; the fields are written by the     *)
(* friend class ShaderTranslator, whose two writes are modelled here as    *)
(* the design describes them.                                               *)

\* Messages of the recorded errors.
ErrorMessages == {"unsupported instruction", "invalid register index"}

\* Shader::Error.
Error == [is_fatal : BOOLEAN, message : ErrorMessages]

DefaultShader_ConstructedValid ==
    [is_valid_ |-> TRUE,
     is_translated_ |-> FALSE,
     errors_ |-> << >>]

\* The validity and error state of a constructed Shader.
DefaultShader ==
    [is_valid_ |-> FALSE,
     is_translated_ |-> FALSE,
     errors_ |-> << >>]

is_valid(s) == s.is_valid_

is_translated(s) == s.is_translated_

errors(s) == s.errors_

\* The translator records an error while it walks the instructions: the
\* error is appended to the Shader's error list.
TranslatorAppendError(s, error) ==
    [s EXCEPT !.errors_ = Append(@, error)]

TranslatorCompletePass_ValidDespiteErrors(s) ==
    [s EXCEPT !.is_translated_ = TRUE,
              !.is_valid_ = TRUE]

\* The translator completes its pass: the Shader is translated, and valid
\* unless a fatal error was recorded.
TranslatorCompletePass(s) ==
    [s EXCEPT !.is_translated_ = TRUE,
              !.is_valid_ = \A i \in 1..Len(s.errors_) :
                                ~s.errors_[i].is_fatal]

---------------------------------------------------------------------------
(* ParsedAluInstruction. *)

\* ucode::AluVectorOpcode values that occur in the model.
AluVectorOpcode == {"kAdd", "kMax", "kMad", "kSetpEqPush"}

\* ucode::AluScalarOpcode values that occur in the model.
AluScalarOpcode == {"kAdds", "kRetainPrev"}

\* ucode::AluVectorOpHasSideEffects: opcodes that do more than write their
\* masked result (here the one that also sets the predicate).
AluVectorOpHasSideEffects(vector_opcode) == vector_opcode = "kSetpEqPush"

\* A default-constructed ParsedAluInstruction.
DefaultAlu ==
    [vector_opcode |-> "kAdd",
     scalar_opcode |-> "kAdds",
     is_predicated |-> FALSE,
     predicate_condition |-> FALSE,
     vector_and_constant_result |-> DefaultResult,
     scalar_result |-> DefaultResult,
     vector_operands |-> [k \in 0..2 |-> DefaultOperand],
     scalar_operands |-> [k \in 0..1 |-> DefaultOperand]]

IsScalarOpDefaultNop_IgnoreRegisterIndex(a) ==
    IF \/ a.scalar_opcode # "kRetainPrev"
       \/ a.scalar_result.original_write_mask # 0
       \/ a.scalar_result.is_clamped
    THEN FALSE
    ELSE TRUE

IsScalarOpDefaultNop(a) ==
    IF \/ a.scalar_opcode # "kRetainPrev"
       \/ a.scalar_result.original_write_mask # 0
       \/ a.scalar_result.is_clamped
    THEN FALSE
    ELSE IF a.scalar_result.storage_target = "kRegister"
            /\ (\/ a.scalar_result.storage_index # 0
                \/ a.scalar_result.storage_addressing_mode # "kStatic")
    THEN FALSE
    ELSE TRUE

\* The operand part of the first condition of IsVectorOpDefaultNop, for
\* vector_operands[k]: TRUE when the operand rules the default nop out.
VectorOperandNotDefault(o) ==
    \/ o.storage_source # "kRegister"
    \/ o.storage_index # 0
    \/ o.storage_addressing_mode # "kStatic"
    \/ o.is_negated
    \/ o.is_absolute_value
    \/ ~IsStandardSwizzle(o)

IsVectorOpDefaultNop_AnyOpcode(a) ==
    IF \/ a.vector_and_constant_result.original_write_mask # 0
       \/ a.vector_and_constant_result.is_clamped
       \/ VectorOperandNotDefault(a.vector_operands[0])
       \/ VectorOperandNotDefault(a.vector_operands[1])
    THEN FALSE
    ELSE IF a.vector_and_constant_result.storage_target = "kRegister"
    THEN IF \/ a.vector_and_constant_result.storage_index # 0
            \/ a.vector_and_constant_result.storage_addressing_mode
                   # "kStatic"
         THEN FALSE
         ELSE TRUE
    ELSE IF IsScalarOpDefaultNop(a)
    THEN FALSE
    ELSE TRUE

IsVectorOpDefaultNop_ScalarCheckForAnyTarget(a) ==
    IF \/ a.vector_opcode # "kMax"
       \/ a.vector_and_constant_result.original_write_mask # 0
       \/ a.vector_and_constant_result.is_clamped
       \/ VectorOperandNotDefault(a.vector_operands[0])
       \/ VectorOperandNotDefault(a.vector_operands[1])
    THEN FALSE
    ELSE IF /\ a.vector_and_constant_result.storage_target = "kRegister"
            /\ (\/ a.vector_and_constant_result.storage_index # 0
                \/ a.vector_and_constant_result.storage_addressing_mode
                       # "kStatic")
    THEN FALSE
    ELSE IF IsScalarOpDefaultNop(a)
    THEN FALSE
    ELSE TRUE

IsVectorOpDefaultNop_ClampIgnored(a) ==
    IF \/ a.vector_opcode # "kMax"
       \/ a.vector_and_constant_result.original_write_mask # 0
       \/ VectorOperandNotDefault(a.vector_operands[0])
       \/ VectorOperandNotDefault(a.vector_operands[1])
    THEN FALSE
    ELSE IF a.vector_and_constant_result.storage_target = "kRegister"
    THEN IF \/ a.vector_and_constant_result.storage_index # 0
            \/ a.vector_and_constant_result.storage_addressing_mode
                   # "kStatic"
         THEN FALSE
         ELSE TRUE
    ELSE IF IsScalarOpDefaultNop(a)
    THEN FALSE
    ELSE TRUE

IsVectorOpDefaultNop_NoExportCheck(a) ==
    IF \/ a.vector_opcode # "kMax"
       \/ a.vector_and_constant_result.original_write_mask # 0
       \/ a.vector_and_constant_result.is_clamped
       \/ VectorOperandNotDefault(a.vector_operands[0])
       \/ VectorOperandNotDefault(a.vector_operands[1])
    THEN FALSE
    ELSE IF a.vector_and_constant_result.storage_target = "kRegister"
    THEN IF \/ a.vector_and_constant_result.storage_index # 0
            \/ a.vector_and_constant_result.storage_addressing_mode
                   # "kStatic"
         THEN FALSE
         ELSE TRUE
    ELSE TRUE

IsVectorOpDefaultNop(a) ==
    IF \/ a.vector_opcode # "kMax"
       \/ a.vector_and_constant_result.original_write_mask # 0
       \/ a.vector_and_constant_result.is_clamped
       \/ VectorOperandNotDefault(a.vector_operands[0])
       \/ VectorOperandNotDefault(a.vector_operands[1])
    THEN FALSE
    ELSE IF a.vector_and_constant_result.storage_target = "kRegister"
    THEN IF \/ a.vector_and_constant_result.storage_index # 0
            \/ a.vector_and_constant_result.storage_addressing_mode
                   # "kStatic"
         THEN FALSE
         ELSE TRUE
    ELSE IF IsScalarOpDefaultNop(a)
    THEN FALSE
    ELSE TRUE

IsNop_OriginalMasks(a) ==
    /\ a.scalar_opcode = "kRetainPrev"
    /\ a.scalar_result.original_write_mask = 0
    /\ a.vector_and_constant_result.original_write_mask = 0
    /\ ~AluVectorOpHasSideEffects(a.vector_opcode)

IsNop(a) ==
    /\ a.scalar_opcode = "kRetainPrev"
    /\ GetUsedWriteMask(a.scalar_result) = 0
    /\ GetUsedWriteMask(a.vector_and_constant_result) = 0
    /\ ~AluVectorOpHasSideEffects(a.vector_opcode)

GetMemExportStreamConstant_AnyOpcode(a) ==
    IF /\ a.vector_and_constant_result.storage_target = "kExportAddress"
       /\ GetUsedResultComponents(a.vector_and_constant_result) = 15
       /\ ~a.vector_and_constant_result.is_clamped
       /\ a.vector_operands[2].storage_source = "kConstantFloat"
       /\ a.vector_operands[2].storage_addressing_mode = "kStatic"
       /\ IsStandardSwizzle(a.vector_operands[2])
       /\ ~a.vector_operands[2].is_negated
       /\ ~a.vector_operands[2].is_absolute_value
    THEN a.vector_operands[2].storage_index
    ELSE UINT32_MAX

GetMemExportStreamConstant_StandardResultSwizzleOnly(a) ==
    IF /\ a.vector_and_constant_result.storage_target = "kExportAddress"
       /\ a.vector_opcode = "kMad"
       /\ ResultIsStandardSwizzle(a.vector_and_constant_result)
       /\ ~a.vector_and_constant_result.is_clamped
       /\ a.vector_operands[2].storage_source = "kConstantFloat"
       /\ a.vector_operands[2].storage_addressing_mode = "kStatic"
       /\ IsStandardSwizzle(a.vector_operands[2])
       /\ ~a.vector_operands[2].is_negated
       /\ ~a.vector_operands[2].is_absolute_value
    THEN a.vector_operands[2].storage_index
    ELSE UINT32_MAX

GetMemExportStreamConstant(a) ==
    IF /\ a.vector_and_constant_result.storage_target = "kExportAddress"
       /\ a.vector_opcode = "kMad"
       /\ GetUsedResultComponents(a.vector_and_constant_result) = 15
       /\ ~a.vector_and_constant_result.is_clamped
       /\ a.vector_operands[2].storage_source = "kConstantFloat"
       /\ a.vector_operands[2].storage_addressing_mode = "kStatic"
       /\ IsStandardSwizzle(a.vector_operands[2])
       /\ ~a.vector_operands[2].is_negated
       /\ ~a.vector_operands[2].is_absolute_value
    THEN a.vector_operands[2].storage_index
    ELSE UINT32_MAX

---------------------------------------------------------------------------
(* Query calls. *)

NoCall == [fn |-> "none", arg |-> 0, val |-> 0]

Call(fn, arg, val) == [fn |-> fn, arg |-> arg, val |-> val]

---------------------------------------------------------------------------
(* SpecResult: queries on an InstructionResult.  The queries read          *)
(* storage_target, original_write_mask and components; these range over    *)
(* all their values, the other fields keep their constructed values.       *)

InitResult ==
    /\ \E t \in InstructionStorageTarget, m \in 0..15,
          c \in [0..3 -> SwizzleSource] :
          result = [DefaultResult EXCEPT !.storage_target = t,
                                         !.original_write_mask = m,
                                         !.components = c]
    /\ operand = DefaultOperand
    /\ other_operand = DefaultOperand
    /\ crm = DefaultCrm
    /\ shader = DefaultShader
    /\ alu = DefaultAlu
    /\ edits = 0
    /\ ret = NoCall

Call_GetUsedWriteMask ==
    /\ ret = NoCall
    /\ ret' = Call("GetUsedWriteMask", 0, GetUsedWriteMask(result))
    /\ UNCHANGED <<result, operand, other_operand, crm, shader, alu, edits>>

Call_GetUsedResultComponents ==
    /\ ret = NoCall
    /\ ret' = Call("GetUsedResultComponents", 0,
                   GetUsedResultComponents(result))
    /\ UNCHANGED <<result, operand, other_operand, crm, shader, alu, edits>>

NextResult ==
    \/ Call_GetUsedWriteMask
    \/ Call_GetUsedResultComponents

SpecResult == InitResult /\ [][NextResult]_vars

---------------------------------------------------------------------------
(* SpecOperand: queries on an InstructionOperand.  GetComponent and        *)
(* IsStandardSwizzle read component_count and components; these range over *)
(* all their values, the other fields keep their constructed values.       *)

InitOperand ==
    /\ \E n \in 1..4, c \in [0..3 -> SwizzleSource] :
          operand = [DefaultOperand EXCEPT !.component_count = n,
                                           !.components = c]
    /\ other_operand = DefaultOperand
    /\ result = DefaultResult
    /\ crm = DefaultCrm
    /\ shader = DefaultShader
    /\ alu = DefaultAlu
    /\ edits = 0
    /\ ret = NoCall

Call_GetComponent ==
    /\ ret = NoCall
    /\ \E index \in 0..MaxComponentIndex :
          ret' = Call("GetComponent", index, GetComponent(operand, index))
    /\ UNCHANGED <<result, operand, other_operand, crm, shader, alu, edits>>

Call_IsStandardSwizzle ==
    /\ ret = NoCall
    /\ ret' = Call("IsStandardSwizzle", 0, IsStandardSwizzle(operand))
    /\ UNCHANGED <<result, operand, other_operand, crm, shader, alu, edits>>

NextOperand ==
    \/ Call_GetComponent
    \/ Call_IsStandardSwizzle

SpecOperand == InitOperand /\ [][NextOperand]_vars

---------------------------------------------------------------------------
(* SpecOperandPair: the comparisons of an InstructionOperand with another. *)
(* Either the two operands keep the constructed storage and modifiers and  *)
(* their swizzles range over every component count and, per lane, over     *)
(* the lane's own source, x and constant 1; or their storage and           *)
(* modifiers range over the samples and their swizzles over two samples.   *)

\* Swizzles of the operands whose storage and modifiers vary: xyzw and
\* the 2-component xy (read as xyyy).
SwizzleSamples ==
    {[component_count |-> 4, components |-> StandardComponents],
     [component_count |-> 2,
      components |-> [i \in 0..3 |-> IF i = 1 THEN kY ELSE kX]]}

InitOperandPair ==
    /\ \/ \E n1, n2 \in 1..4 :
             \E c1, c2 \in {c \in [0..3 -> SwizzleSource] :
                               \A i \in 0..3 : c[i] \in {kX + i, kX, k1}} :
                /\ operand = [DefaultOperand EXCEPT !.component_count = n1,
                                                    !.components = c1]
                /\ other_operand =
                       [DefaultOperand EXCEPT !.component_count = n2,
                                              !.components = c2]
       \/ \E s1, s2 \in {"kRegister", "kConstantFloat"},
                x1, x2 \in 0..MaxStorageIndex,
                m1, m2 \in InstructionStorageAddressingMode,
                neg1, neg2, abs1, abs2 \in BOOLEAN,
                w1, w2 \in SwizzleSamples :
             /\ operand = [storage_source |-> s1,
                           storage_index |-> x1,
                           storage_addressing_mode |-> m1,
                           is_negated |-> neg1,
                           is_absolute_value |-> abs1,
                           component_count |-> w1.component_count,
                           components |-> w1.components]
             /\ other_operand = [storage_source |-> s2,
                                 storage_index |-> x2,
                                 storage_addressing_mode |-> m2,
                                 is_negated |-> neg2,
                                 is_absolute_value |-> abs2,
                                 component_count |-> w2.component_count,
                                 components |-> w2.components]
    /\ result = DefaultResult
    /\ crm = DefaultCrm
    /\ shader = DefaultShader
    /\ alu = DefaultAlu
    /\ edits = 0
    /\ ret = NoCall

Call_GetAbsoluteIdenticalComponents ==
    /\ ret = NoCall
    /\ ret' = Call("GetAbsoluteIdenticalComponents", 0,
                   GetAbsoluteIdenticalComponents(operand, other_operand))
    /\ UNCHANGED <<result, operand, other_operand, crm, shader, alu, edits>>

Call_GetIdenticalComponents ==
    /\ ret = NoCall
    /\ ret' = Call("GetIdenticalComponents", 0,
                   GetIdenticalComponents(operand, other_operand))
    /\ UNCHANGED <<result, operand, other_operand, crm, shader, alu, edits>>

NextOperandPair ==
    \/ Call_GetAbsoluteIdenticalComponents
    \/ Call_GetIdenticalComponents

SpecOperandPair == InitOperandPair /\ [][NextOperandPair]_vars

---------------------------------------------------------------------------
(* SpecShader: a constructed Shader under its translation pass.  The       *)
(* translator records up to MaxErrors errors and then completes the pass;  *)
(* the accessors are called at any time.                                    *)

InitShader ==
    /\ shader = DefaultShader
    /\ result = DefaultResult
    /\ operand = DefaultOperand
    /\ other_operand = DefaultOperand
    /\ crm = DefaultCrm
    /\ alu = DefaultAlu
    /\ edits = 0
    /\ ret = NoCall

Translator_AppendError ==
    /\ ~is_translated(shader)
    /\ Len(errors(shader)) < MaxErrors
    /\ \E error \in Error : shader' = TranslatorAppendError(shader, error)
    /\ ret' = NoCall
    /\ UNCHANGED <<result, operand, other_operand, crm, alu, edits>>

Translator_CompletePass ==
    /\ ~is_translated(shader)
    /\ shader' = TranslatorCompletePass(shader)
    /\ ret' = NoCall
    /\ UNCHANGED <<result, operand, other_operand, crm, alu, edits>>

Call_is_valid ==
    /\ ret' = Call("is_valid", 0, is_valid(shader))
    /\ UNCHANGED <<result, operand, other_operand, crm, shader, alu, edits>>

Call_errors ==
    /\ ret' = Call("errors", 0, errors(shader))
    /\ UNCHANGED <<result, operand, other_operand, crm, shader, alu, edits>>

NextShader ==
    \/ Translator_AppendError
    \/ Translator_CompletePass
    \/ Call_is_valid
    \/ Call_errors

SpecShader == InitShader /\ [][NextShader]_vars

---------------------------------------------------------------------------
(* SpecPack: GetPackedFloatConstantIndex on a ConstantRegisterMap whose    *)
(* float_bitmap has at most MaxSetBits bits set, among the sample          *)
(* constants, or has all 256 bits set.                                      *)

\* Float constant indices whose bits may be set: the ends of each 64-bit
\* block and indices inside the blocks.
FloatConstantSamples == {0, 3, 4, 5, 63, 64, 130, 191, 192, 255}

\* Float constant indices that are looked up: the samples, an index that is
\* never set, and indices past the 256 a shader can address.
FloatConstantQueries == FloatConstantSamples \cup {129, 256, 258, 511}

\* The float_bitmap whose set bits are the float constants in S.
BitmapOf(S) == [b \in 0..3 |-> {c % 64 : c \in {x \in S : x \div 64 = b}}]

\* The sets of float constants a float_bitmap under query has set.
BitmapContents(bound) ==
    {T \in SUBSET FloatConstantSamples : Cardinality(T) <= bound}
        \cup {0..255}

InitPack ==
    /\ \E S \in BitmapContents(MaxSetBits), d \in BOOLEAN :
          crm = [float_bitmap |-> BitmapOf(S),
                 float_dynamic_addressing |-> d]
    /\ shader = DefaultShader
    /\ result = DefaultResult
    /\ operand = DefaultOperand
    /\ other_operand = DefaultOperand
    /\ alu = DefaultAlu
    /\ edits = 0
    /\ ret = NoCall

Call_GetPackedFloatConstantIndex ==
    /\ ret = NoCall
    /\ \E c \in FloatConstantQueries :
          ret' = Call("GetPackedFloatConstantIndex", c,
                      GetPackedFloatConstantIndex(crm, c))
    /\ UNCHANGED <<result, operand, other_operand, crm, shader, alu, edits>>

NextPack == Call_GetPackedFloatConstantIndex

SpecPack == InitPack /\ [][NextPack]_vars

---------------------------------------------------------------------------
(* SpecAlu: queries on a ParsedAluInstruction.  The instruction starts as  *)
(* one of the seed instructions and has up to MaxEdits of its fields       *)
(* written before a query is called on it.                                  *)

\* mov r0._, r0 + retain_prev r0._ : what omitting both operations
\* assembles to (shader.h, comment in IsVectorOpDefaultNop).
RegisterNopPair ==
    [DefaultAlu EXCEPT
        !.vector_opcode = "kMax",
        !.scalar_opcode = "kRetainPrev",
        !.vector_and_constant_result.storage_target = "kRegister",
        !.scalar_result.storage_target = "kRegister"]

\* mad eA, r0, r0, c0 : the memexport address write recognized by
\* GetMemExportStreamConstant.
MemExportMad ==
    [RegisterNopPair EXCEPT
        !.vector_opcode = "kMad",
        !.vector_and_constant_result.storage_target = "kExportAddress",
        !.vector_and_constant_result.original_write_mask = 15,
        !.scalar_result.storage_target = "kExportAddress",
        !.vector_operands[2].storage_source = "kConstantFloat"]

AluSeeds == {DefaultAlu, RegisterNopPair, MemExportMad}

\* Values written to the fields of a seed.
TargetSamples ==
    {"kNone", "kRegister", "kExportAddress",
     "kPointSizeEdgeFlagKillVertex", "kDepth"}
WriteMaskSamples == {0, 1, 8, 15}
SourceSamples == {"kRegister", "kConstantFloat"}
\* Lane writes <<lane, source>>: a swap of x and y (two writes), constant 1
\* and constant 0.
LaneWrites == {<<0, kY>>, <<1, kX>>, <<2, k1>>, <<3, k0>>}
\* Operands assigned whole to scalar_operands, which no query reads: the
\* constructed operand and -|c0|.x .
ScalarOperandSamples ==
    {DefaultOperand,
     [DefaultOperand EXCEPT !.storage_source = "kConstantFloat",
                            !.is_negated = TRUE,
                            !.is_absolute_value = TRUE,
                            !.component_count = 1]}

\* The results one field write away from r.
ResultWrites(r) ==
    ({[r EXCEPT !.storage_target = t] : t \in TargetSamples}
     \cup {[r EXCEPT !.storage_index = x] : x \in 0..MaxStorageIndex}
     \cup {[r EXCEPT !.storage_addressing_mode = m] :
              m \in InstructionStorageAddressingMode}
     \cup {[r EXCEPT !.is_clamped = b] : b \in BOOLEAN}
     \cup {[r EXCEPT !.original_write_mask = m] : m \in WriteMaskSamples}
     \cup {[r EXCEPT !.components[w[1]] = w[2]] : w \in LaneWrites})
    \ {r}

\* The operands one field write away from o.
OperandWrites(o) ==
    ({[o EXCEPT !.storage_source = s] : s \in SourceSamples}
     \cup {[o EXCEPT !.storage_index = x] : x \in 0..MaxStorageIndex}
     \cup {[o EXCEPT !.storage_addressing_mode = m] :
              m \in InstructionStorageAddressingMode}
     \cup {[o EXCEPT !.is_negated = b] : b \in BOOLEAN}
     \cup {[o EXCEPT !.is_absolute_value = b] : b \in BOOLEAN}
     \cup {[o EXCEPT !.component_count = n] : n \in {3, 4}}
     \cup {[o EXCEPT !.components[w[1]] = w[2]] : w \in LaneWrites})
    \ {o}

InitAlu ==
    /\ alu \in AluSeeds
    /\ edits = 0
    /\ result = DefaultResult
    /\ operand = DefaultOperand
    /\ other_operand = DefaultOperand
    /\ crm = DefaultCrm
    /\ shader = DefaultShader
    /\ ret = NoCall

\* A field write is possible before the query, within the bound.
CanWrite == ret = NoCall /\ edits < MaxEdits

Write_vector_opcode ==
    /\ CanWrite
    /\ \E op \in AluVectorOpcode \ {alu.vector_opcode} :
          alu' = [alu EXCEPT !.vector_opcode = op]
    /\ edits' = edits + 1
    /\ UNCHANGED <<result, operand, other_operand, crm, shader, ret>>

Write_scalar_opcode ==
    /\ CanWrite
    /\ \E op \in AluScalarOpcode \ {alu.scalar_opcode} :
          alu' = [alu EXCEPT !.scalar_opcode = op]
    /\ edits' = edits + 1
    /\ UNCHANGED <<result, operand, other_operand, crm, shader, ret>>

Write_is_predicated ==
    /\ CanWrite
    /\ alu' = [alu EXCEPT !.is_predicated = ~alu.is_predicated]
    /\ edits' = edits + 1
    /\ UNCHANGED <<result, operand, other_operand, crm, shader, ret>>

Write_predicate_condition ==
    /\ CanWrite
    /\ alu' = [alu EXCEPT !.predicate_condition = ~alu.predicate_condition]
    /\ edits' = edits + 1
    /\ UNCHANGED <<result, operand, other_operand, crm, shader, ret>>

Write_vector_and_constant_result ==
    /\ CanWrite
    /\ \E r \in ResultWrites(alu.vector_and_constant_result) :
          alu' = [alu EXCEPT !.vector_and_constant_result = r]
    /\ edits' = edits + 1
    /\ UNCHANGED <<result, operand, other_operand, crm, shader, ret>>

Write_scalar_result ==
    /\ CanWrite
    /\ \E r \in ResultWrites(alu.scalar_result) :
          alu' = [alu EXCEPT !.scalar_result = r]
    /\ edits' = edits + 1
    /\ UNCHANGED <<result, operand, other_operand, crm, shader, ret>>

Write_vector_operands ==
    /\ CanWrite
    /\ \E k \in 0..2 : \E o \in OperandWrites(alu.vector_operands[k]) :
          alu' = [alu EXCEPT !.vector_operands[k] = o]
    /\ edits' = edits + 1
    /\ UNCHANGED <<result, operand, other_operand, crm, shader, ret>>

Write_scalar_operands ==
    /\ CanWrite
    /\ \E k \in 0..1 :
          \E o \in ScalarOperandSamples \ {alu.scalar_operands[k]} :
             alu' = [alu EXCEPT !.scalar_operands[k] = o]
    /\ edits' = edits + 1
    /\ UNCHANGED <<result, operand, other_operand, crm, shader, ret>>

Call_IsVectorOpDefaultNop ==
    /\ ret = NoCall
    /\ ret' = Call("IsVectorOpDefaultNop", 0, IsVectorOpDefaultNop(alu))
    /\ UNCHANGED <<result, operand, other_operand, crm, shader, alu, edits>>

Call_IsScalarOpDefaultNop ==
    /\ ret = NoCall
    /\ ret' = Call("IsScalarOpDefaultNop", 0, IsScalarOpDefaultNop(alu))
    /\ UNCHANGED <<result, operand, other_operand, crm, shader, alu, edits>>

Call_IsNop ==
    /\ ret = NoCall
    /\ ret' = Call("IsNop", 0, IsNop(alu))
    /\ UNCHANGED <<result, operand, other_operand, crm, shader, alu, edits>>

Call_GetMemExportStreamConstant ==
    /\ ret = NoCall
    /\ ret' = Call("GetMemExportStreamConstant", 0,
                   GetMemExportStreamConstant(alu))
    /\ UNCHANGED <<result, operand, other_operand, crm, shader, alu, edits>>

NextAlu ==
    \/ Write_vector_opcode
    \/ Write_scalar_opcode
    \/ Write_is_predicated
    \/ Write_predicate_condition
    \/ Write_vector_and_constant_result
    \/ Write_scalar_result
    \/ Write_vector_operands
    \/ Write_scalar_operands
    \/ Call_IsVectorOpDefaultNop
    \/ Call_IsScalarOpDefaultNop
    \/ Call_IsNop
    \/ Call_GetMemExportStreamConstant

SpecAlu == InitAlu /\ [][NextAlu]_vars

---------------------------------------------------------------------------
(* Properties.  The expected values are written out independently of the   *)
(* operators that model the code.                                           *)

\* The components a storage target can hold, as a set of lanes.
FixedMaskBits(target) ==
    CASE target = "kNone" -> {}
      [] target = "kPointSizeEdgeFlagKillVertex" -> {0, 1, 2}
      [] target = "kDepth" -> {0}
      [] OTHER -> {0, 1, 2, 3}

\* The lanes of r that are written and exist in its target.
UsedLanes(r) == Bits(r.original_write_mask) \cap FixedMaskBits(r.storage_target)

\* C1: GetUsedWriteMask() is original_write_mask restricted to the fixed
\* component mask of the storage target (kNone none, the point size export
\* xyz, kDepth x, every other target xyzw), hence a subset of both.
C1_UsedWriteMask ==
    ret.fn = "GetUsedWriteMask" =>
        /\ ret.val \in 0..15
        /\ Bits(ret.val) = UsedLanes(result)
        /\ Bits(ret.val) \subseteq Bits(result.original_write_mask)
        /\ Bits(ret.val) \subseteq FixedMaskBits(result.storage_target)
        /\ result.storage_target = "kDepth" => ret.val \in {0, 1}
        /\ result.storage_target = "kNone" => ret.val = 0

\* C1 witness: a depth result with all four lanes masked in keeps lane x only.
C1_Witness ==
    /\ ret.fn = "GetUsedWriteMask"
    /\ result.storage_target = "kDepth"
    /\ result.original_write_mask = 15
    /\ ret.val = 1

\* C2: for component_count n in 1..4, GetComponent(i) reads
\* components[min(i, n-1)]: position i below the count, the last declared
\* position from there on, never a position at or past the count.
C2_GetComponentReplicates ==
    ret.fn = "GetComponent" =>
        LET n == operand.component_count
            i == ret.arg
        IN  /\ i < n => ret.val = operand.components[i]
            /\ i >= n - 1 => ret.val = operand.components[n - 1]
            /\ \E pos \in 0..(n - 1) :
                  /\ pos = (IF i <= n - 1 THEN i ELSE n - 1)
                  /\ ret.val = operand.components[pos]

\* C2 witness: a 2-component operand asked for component 3 returns its
\* component 1, which differs from what positions 3 and 3 mod 2 hold.
C2_Witness ==
    /\ ret.fn = "GetComponent"
    /\ operand.component_count = 2
    /\ ret.arg = 3
    /\ ret.val = operand.components[1]
    /\ operand.components[3] # operand.components[1]
    /\ operand.components[0] # operand.components[1]

\* The float constants whose bit is set in the float_bitmap of m.
SetFloatConstants(m) ==
    UNION {{64 * b + p : p \in m.float_bitmap[b]} : b \in 0..3}

\* C3: without dynamic addressing, GetPackedFloatConstantIndex(c) is
\* UINT32_MAX exactly when c >= 256 or bit c is unset, and otherwise the
\* number of set bits below c; over the set bits it is an order-preserving
\* bijection onto 0..popcount-1.
C3_PackedIndexIsPrefixPopcount ==
    (ret.fn = "GetPackedFloatConstantIndex" /\ ~crm.float_dynamic_addressing)
    =>
        LET set == SetFloatConstants(crm)
            c == ret.arg
        IN  /\ (ret.val = UINT32_MAX) <=> (c >= 256 \/ c \notin set)
            /\ c \in set => ret.val = Cardinality({x \in set : x < c})
            /\ LET packed == {<<x, GetPackedFloatConstantIndex(crm, x)>> :
                                 x \in set}
               IN  /\ {p[2] : p \in packed} = 0..(Cardinality(set) - 1)
                   /\ \A p, q \in packed : p[1] < q[1] => p[2] < q[2]

\* C3 witness: with bits 3, 5 and 130 set, constant 130 packs to index 2.
C3_Witness ==
    /\ ret.fn = "GetPackedFloatConstantIndex"
    /\ ~crm.float_dynamic_addressing
    /\ SetFloatConstants(crm) = {3, 5, 130}
    /\ ret.arg = 130
    /\ ret.val = 2

\* C4: with dynamic addressing, GetPackedFloatConstantIndex(c) is c for
\* every c in 0..255, whatever the bitmap holds.
C4_DynamicIsIdentityInRange ==
    (/\ ret.fn = "GetPackedFloatConstantIndex"
     /\ crm.float_dynamic_addressing
     /\ ret.arg \in 0..255)
    => (ret.val = ret.arg /\ ret.val # UINT32_MAX)

\* C4 witness: dynamic addressing, a constant whose bit is unset among set
\* ones, returned as itself.
C4_Witness ==
    /\ ret.fn = "GetPackedFloatConstantIndex"
    /\ crm.float_dynamic_addressing
    /\ ret.arg = 130
    /\ SetFloatConstants(crm) = {3, 5}
    /\ ret.val = 130

\* C5: IsNop() is true exactly when the scalar opcode is kRetainPrev, no
\* lane of either result is both written and present in its target, and
\* the vector opcode has no side effects.
C5_IsNopExactly ==
    ret.fn = "IsNop" =>
        /\ ret.val <=>
              /\ alu.scalar_opcode = "kRetainPrev"
              /\ UsedLanes(alu.scalar_result) = {}
              /\ UsedLanes(alu.vector_and_constant_result) = {}
              /\ ~AluVectorOpHasSideEffects(alu.vector_opcode)
        /\ AluVectorOpHasSideEffects(alu.vector_opcode) => ~ret.val

\* C5 witness: a nop whose vector result has a lane masked in that its
\* target (depth) cannot hold.
C5_Witness ==
    /\ ret.fn = "IsNop"
    /\ ret.val
    /\ alu.vector_and_constant_result.storage_target = "kDepth"
    /\ alu.vector_and_constant_result.original_write_mask = 8

\* Operand o is temporary register 0, statically addressed, unmodified,
\* with the 4-component xyzw swizzle.
IsRegister0Standard(o) ==
    /\ o.storage_source = "kRegister"
    /\ o.storage_index = 0
    /\ o.storage_addressing_mode = "kStatic"
    /\ ~o.is_negated
    /\ ~o.is_absolute_value
    /\ o.component_count = 4
    /\ \A i \in 0..3 : o.components[i] = i

\* The default vector operation as C6 and C7 describe it.
IsDefaultVectorOp(a) ==
    /\ a.vector_opcode = "kMax"
    /\ a.vector_and_constant_result.original_write_mask = 0
    /\ ~a.vector_and_constant_result.is_clamped
    /\ IsRegister0Standard(a.vector_operands[0])
    /\ IsRegister0Standard(a.vector_operands[1])

\* C6 as stated: a default vector operation against a register target is
\* reported default-nop whatever the remaining fields hold.
C6_Original ==
    (/\ ret.fn = "IsVectorOpDefaultNop"
     /\ IsDefaultVectorOp(alu)
     /\ alu.vector_and_constant_result.storage_target = "kRegister")
    => ret.val

\* C6 amended: a default vector operation against register 0, statically
\* addressed, is reported default-nop whatever the remaining fields hold.
C6_DefaultVectorOpIntoR0IsNop ==
    (/\ ret.fn = "IsVectorOpDefaultNop"
     /\ IsDefaultVectorOp(alu)
     /\ alu.vector_and_constant_result.storage_target = "kRegister"
     /\ alu.vector_and_constant_result.storage_index = 0
     /\ alu.vector_and_constant_result.storage_addressing_mode = "kStatic")
    => ret.val

\* C6 witness: the default vector operation into r0 reported default-nop
\* beside a scalar operation that is itself default-nop and a third vector
\* operand that is not the default one.
C6_Witness ==
    /\ ret.fn = "IsVectorOpDefaultNop"
    /\ ret.val
    /\ IsDefaultVectorOp(alu)
    /\ alu.vector_and_constant_result.storage_target = "kRegister"
    /\ alu.scalar_opcode = "kRetainPrev"
    /\ alu.scalar_result = [DefaultResult EXCEPT !.storage_target = "kRegister"]
    /\ alu.vector_operands[2] # DefaultOperand

\* The instructions that differ from a in exactly one field of the default
\* vector operation: the opcode, the result's write mask or clamp, or a
\* field of one of the first two operands.
DefaultVectorOpFieldChanges(a) ==
    {[a EXCEPT !.vector_opcode = op] :
        op \in AluVectorOpcode \ {a.vector_opcode}}
    \cup {[a EXCEPT !.vector_and_constant_result.original_write_mask = m] :
        m \in (1..15) \ {a.vector_and_constant_result.original_write_mask}}
    \cup {[a EXCEPT !.vector_and_constant_result.is_clamped = TRUE]}
    \cup UNION {{[a EXCEPT !.vector_operands[k] = o] :
                    o \in OperandWrites(a.vector_operands[k])} : k \in 0..1}

\* C7: when IsVectorOpDefaultNop() is true, the vector operation is the
\* default one (kMax, empty original write mask, unclamped, both operands
\* register 0 static unmodified xyzw); and against a register target,
\* changing one of those fields makes it false.
C7_NopOnlyIfDefaultVectorOp ==
    (ret.fn = "IsVectorOpDefaultNop" /\ ret.val) =>
        /\ IsDefaultVectorOp(alu)
        /\ alu.vector_and_constant_result.storage_target = "kRegister" =>
              \A b \in DefaultVectorOpFieldChanges(alu) :
                  ~IsVectorOpDefaultNop(b)

\* C7 witness: IsVectorOpDefaultNop() true against a register target.
C7_Witness ==
    /\ ret.fn = "IsVectorOpDefaultNop"
    /\ ret.val
    /\ alu.vector_and_constant_result.storage_target = "kRegister"
    /\ alu.scalar_opcode = "kAdds"

\* C8: when the vector result does not target a register, the vector and
\* the scalar operation are never both reported default-nop.
C8_ExportKeepsOneOperation ==
    alu.vector_and_constant_result.storage_target # "kRegister" =>
        /\ ret.fn = "IsVectorOpDefaultNop" =>
              ~(ret.val /\ IsScalarOpDefaultNop(alu))
        /\ ret.fn = "IsScalarOpDefaultNop" =>
              ~(ret.val /\ IsVectorOpDefaultNop(alu))

\* C8 witness: the default vector operation against an export target,
\* beside a scalar operation that is default-nop, is reported not default-nop.
C8_Witness ==
    /\ ret.fn = "IsVectorOpDefaultNop"
    /\ ~ret.val
    /\ alu.vector_and_constant_result.storage_target = "kExportAddress"
    /\ IsDefaultVectorOp(alu)
    /\ alu.scalar_opcode = "kRetainPrev"
    /\ alu.scalar_result = [DefaultResult EXCEPT !.storage_target = "kRegister"]

\* C9: GetMemExportStreamConstant() returns a found value only for kMad
\* into kExportAddress, unclamped, with a statically addressed, unmodified,
\* xyzw float constant as third operand, and then returns its index.
C9_FoundOnlyForMadIdiom ==
    ret.fn = "GetMemExportStreamConstant" =>
        /\ ret.val # UINT32_MAX =>
              /\ alu.vector_and_constant_result.storage_target
                     = "kExportAddress"
              /\ alu.vector_opcode = "kMad"
              /\ ~alu.vector_and_constant_result.is_clamped
              /\ alu.vector_operands[2].storage_source = "kConstantFloat"
              /\ alu.vector_operands[2].storage_addressing_mode = "kStatic"
              /\ alu.vector_operands[2].component_count = 4
              /\ \A i \in 0..3 : alu.vector_operands[2].components[i] = i
              /\ ~alu.vector_operands[2].is_negated
              /\ ~alu.vector_operands[2].is_absolute_value
              /\ ret.val = alu.vector_operands[2].storage_index
        /\ alu.vector_opcode # "kMad" => ret.val = UINT32_MAX

\* The third operand is a statically addressed, unmodified float constant
\* with the xyzw swizzle.
IsStreamConstantOperand(o) ==
    /\ o.storage_source = "kConstantFloat"
    /\ o.storage_addressing_mode = "kStatic"
    /\ ~o.is_negated
    /\ ~o.is_absolute_value
    /\ o.component_count = 4
    /\ \A i \in 0..3 : o.components[i] = i

\* C9 witness: every condition of the idiom but the opcode holds, and the
\* constant is not found.
C9_Witness ==
    /\ ret.fn = "GetMemExportStreamConstant"
    /\ ret.val = UINT32_MAX
    /\ alu.vector_opcode = "kMax"
    /\ alu.vector_and_constant_result.storage_target = "kExportAddress"
    /\ alu.vector_and_constant_result.original_write_mask = 15
    /\ alu.vector_and_constant_result.components = StandardComponents
    /\ ~alu.vector_and_constant_result.is_clamped
    /\ IsStreamConstantOperand(alu.vector_operands[2])

\* The idiom as C10 states it: kMad into kExportAddress, all 4 lanes
\* written, unclamped, third operand a stream constant.
IsStatedMemExportIdiom(a) ==
    /\ a.vector_and_constant_result.storage_target = "kExportAddress"
    /\ a.vector_opcode = "kMad"
    /\ UsedLanes(a.vector_and_constant_result) = {0, 1, 2, 3}
    /\ ~a.vector_and_constant_result.is_clamped
    /\ IsStreamConstantOperand(a.vector_operands[2])

\* C10 as stated: the constant is found for every instruction of the stated
\* idiom, whatever feeds the result lanes.
C10_Original ==
    (ret.fn = "GetMemExportStreamConstant" /\ IsStatedMemExportIdiom(alu))
    => (ret.val # UINT32_MAX /\ ret.val = alu.vector_operands[2].storage_index)

\* C10 amended: the constant is found for every instruction of the stated
\* idiom whose four result lanes are fed by the four source lanes x, y, z, w
\* in some order (no lane fed by constant 0/1, no source lane repeated).
C10_FoundForIdiomWithAllSourceLanes ==
    (/\ ret.fn = "GetMemExportStreamConstant"
     /\ IsStatedMemExportIdiom(alu)
     /\ {alu.vector_and_constant_result.components[i] : i \in 0..3}
            = {kX, kY, kZ, kW})
    => (ret.val # UINT32_MAX /\ ret.val = alu.vector_operands[2].storage_index)

\* C10 witness: the constant is found with the result lanes fed in the
\* order yxzw.
C10_Witness ==
    /\ ret.fn = "GetMemExportStreamConstant"
    /\ IsStatedMemExportIdiom(alu)
    /\ alu.vector_and_constant_result.components[0] = kY
    /\ alu.vector_and_constant_result.components[1] = kX
    /\ ret.val = alu.vector_operands[2].storage_index
    /\ ret.val # UINT32_MAX

\* Operands a and b name the same storage.
SameStorage(a, b) ==
    /\ a.storage_source = b.storage_source
    /\ a.storage_index = b.storage_index
    /\ a.storage_addressing_mode = b.storage_addressing_mode

\* The source that lane i of operand o reads: its component i, or its last
\* declared component when it declares fewer than i + 1.
LaneSource(o, i) ==
    IF i < o.component_count THEN o.components[i]
    ELSE o.components[o.component_count - 1]

\* The lanes in which a and b read the same source.
EqualLanes(a, b) == {i \in 0..3 : LaneSource(a, i) = LaneSource(b, i)}

HasFatalError(s) ==
    \E i \in 1..Len(s.errors_) : s.errors_[i].is_fatal

\* Sequence p is a prefix of sequence q.
IsPrefix(p, q) ==
    /\ Len(p) <= Len(q)
    /\ \A i \in 1..Len(p) : q[i] = p[i]

C13_StandardSwizzleNeedsFourComponents ==
    ret.fn = "IsStandardSwizzle" =>
        /\ ret.val <=> (/\ operand.component_count = 4
                        /\ <<operand.components[0], operand.components[1],
                             operand.components[2], operand.components[3]>>
                               = <<kX, kY, kZ, kW>>)
        /\ operand.component_count \in 1..3 => ~ret.val

\* C13 witness: a 1-component operand whose components are x, y, z, w is
\* reported not standard.
C13_Witness ==
    /\ ret.fn = "IsStandardSwizzle"
    /\ operand.component_count = 1
    /\ operand.components = StandardComponents
    /\ ~ret.val

\* C14 as stated: with dynamic addressing the function returns its argument
\* for every argument, also for those at or past 256.
C14_Original ==
    (ret.fn = "GetPackedFloatConstantIndex" /\ crm.float_dynamic_addressing)
    => ret.val = ret.arg

\* C14 amended: the range is checked before dynamic addressing.  An
\* argument at or past 256 is "not found" with and without dynamic
\* addressing; with dynamic addressing an argument below 256 is returned
\* as it is.
C14_RangeCheckedBeforeDynamic ==
    ret.fn = "GetPackedFloatConstantIndex" =>
        /\ ret.arg >= 256 => ret.val = UINT32_MAX
        /\ (crm.float_dynamic_addressing /\ ret.arg < 256) =>
              ret.val = ret.arg

\* C14 witness: dynamic addressing, every bit set, constant 258 looked up
\* and not found.
C14_Witness ==
    /\ ret.fn = "GetPackedFloatConstantIndex"
    /\ crm.float_dynamic_addressing
    /\ SetFloatConstants(crm) = 0..255
    /\ ret.arg = 258
    /\ ret.val = UINT32_MAX

\* The instructions that keep the scalar opcode and the scalar result of a
\* and take every other field from a seed instruction, with either sample
\* operand as the scalar operands.
SameScalarOperation(a) ==
    {[s EXCEPT !.scalar_opcode = a.scalar_opcode,
               !.scalar_result = a.scalar_result,
               !.scalar_operands = [k \in 0..1 |-> o]] :
        s \in AluSeeds, o \in ScalarOperandSamples}

\* C15: IsScalarOpDefaultNop() is true exactly when the scalar opcode is
\* kRetainPrev, the scalar result's original write mask is empty, it is not
\* clamped and, if it targets a register, that is register 0 statically
\* addressed; the vector operation and the scalar operands do not matter.
C15_ScalarDefaultNopExactly ==
    ret.fn = "IsScalarOpDefaultNop" =>
        /\ ret.val <=>
              /\ alu.scalar_opcode = "kRetainPrev"
              /\ alu.scalar_result.original_write_mask = 0
              /\ ~alu.scalar_result.is_clamped
              /\ alu.scalar_result.storage_target = "kRegister" =>
                    /\ alu.scalar_result.storage_index = 0
                    /\ alu.scalar_result.storage_addressing_mode = "kStatic"
        /\ \A b \in SameScalarOperation(alu) :
              IsScalarOpDefaultNop(b) = ret.val

\* C15 witness: retain_prev into a non-register target with index 1 and
\* nothing written is reported default-nop.
C15_Witness ==
    /\ ret.fn = "IsScalarOpDefaultNop"
    /\ ret.val
    /\ alu.scalar_result.storage_target = "kExportAddress"
    /\ alu.scalar_result.storage_index = 1

\* add r0._, r0, r0 + retain_prev r0._ : writes nothing, but its vector
\* opcode is not the one an omitted vector operation assembles to.
AddWritingNothing == [RegisterNopPair EXCEPT !.vector_opcode = "kAdd"]

\* mov r0._, r0 + adds r0._ : the default vector operation beside a scalar
\* operation that is not retain_prev.
DefaultVectorOpBesideAdds == [RegisterNopPair EXCEPT !.scalar_opcode = "kAdds"]

\* The source lanes (0..3 for x..w) that feed a used lane of r.
UsedSourceLanes(r) ==
    {r.components[i] - kX :
        i \in {l \in UsedLanes(r) : r.components[l] \in {kX, kY, kZ, kW}}}

\* C16: GetUsedResultComponents() has bit j set exactly when a lane in
\* GetUsedWriteMask() is fed by source lane j (x, y, z or w, not constant
\* 0 or 1); it is empty when the used write mask is empty or every written
\* lane is constant-fed, and has no more bits than GetUsedWriteMask().
C16_UsedResultComponentsAreSourceLanes ==
    ret.fn = "GetUsedResultComponents" =>
        /\ ret.val \in 0..15
        /\ Bits(ret.val) = UsedSourceLanes(result)
        /\ UsedLanes(result) = {} => ret.val = 0
        /\ (\A i \in UsedLanes(result) : result.components[i] \in {k0, k1})
              => ret.val = 0
        /\ Cardinality(Bits(ret.val))
              <= Cardinality(Bits(GetUsedWriteMask(result)))

\* C16 witness: lanes x and y written, fed by source lane w and constant 1:
\* only source lane w is used.
C16_Witness ==
    /\ ret.fn = "GetUsedResultComponents"
    /\ result.storage_target = "kRegister"
    /\ result.original_write_mask = 3
    /\ result.components[0] = kW
    /\ result.components[1] = k1
    /\ ret.val = 8

\* C17: if IsVectorOpDefaultNop() and IsScalarOpDefaultNop() are both true
\* then IsNop() is true.  The converse does not hold (an instruction can be
\* a nop without being the default pair), and IsVectorOpDefaultNop() alone
\* does not imply IsNop().
C17_DefaultNopPairIsNop ==
    /\ ret.fn = "IsNop" =>
          ((IsVectorOpDefaultNop(alu) /\ IsScalarOpDefaultNop(alu))
              => ret.val)
    /\ (ret.fn = "IsVectorOpDefaultNop" /\ ret.val
            /\ IsScalarOpDefaultNop(alu)) => IsNop(alu)
    /\ (ret.fn = "IsScalarOpDefaultNop" /\ ret.val
            /\ IsVectorOpDefaultNop(alu)) => IsNop(alu)
    /\ IsNop(AddWritingNothing)
    /\ ~IsVectorOpDefaultNop(AddWritingNothing)
    /\ IsVectorOpDefaultNop(DefaultVectorOpBesideAdds)
    /\ ~IsNop(DefaultVectorOpBesideAdds)

\* C17 witness: IsNop() called on an instruction whose two operations are
\* both default-nop, predicated and with a third vector operand that is not
\* the constructed one.
C17_Witness ==
    /\ ret.fn = "IsNop"
    /\ ret.val
    /\ IsVectorOpDefaultNop(alu)
    /\ IsScalarOpDefaultNop(alu)
    /\ alu.is_predicated
    /\ alu.vector_operands[2] # DefaultOperand

===========================================================================
